---- MODULE Spec2Model ----
\* The Sparkify data-lake ETL of etl.py: main() runs process_song_data and then
\* process_log_data; each stage reads JSON, builds a table and writes it as
\* parquet in overwrite mode.  A table is a set of rows; every row carries the
\* identity of the source record it was derived from (rid), so that two rows
\* with equal column values remain two rows.  Calendar values are computed in
\* UTC (the runtime timezone is pinned to UTC).
EXTENDS Integers, Sequences, FiniteSets, TLC

VARIABLES catalog, log, df, song_df, disk, before, pc, error, written,
          announced, run

vars == <<catalog, log, df, song_df, disk, before, pc, error, written,
          announced, run>>

\* ---------------------------------------------------------------- bounds
MaxSongs == 2
MaxEvents == 2
MaxRuns == 2

\* ------------------------------------------------------- source records
\* song_data JSON records that the input location may hold
SongRecords ==
  { [rid |-> 1, song_id |-> "S1", title |-> "Test", artist_id |-> "A1",
     artist_name |-> "Artist1", artist_location |-> "L1", artist_latitude |-> 10,
     artist_longitude |-> 20, year |-> 2000, duration |-> 200],
    [rid |-> 2, song_id |-> "S1", title |-> "Other", artist_id |-> "A2",
     artist_name |-> "Artist2", artist_location |-> "L2", artist_latitude |-> 11,
     artist_longitude |-> 21, year |-> 2001, duration |-> 201],
    [rid |-> 3, song_id |-> "S2", title |-> "Test", artist_id |-> "A1",
     artist_name |-> "Artist1", artist_location |-> "L3", artist_latitude |-> 10,
     artist_longitude |-> 20, year |-> 2000, duration |-> 200] }

\* log_data JSON records that the input location may hold
LogRecords ==
  { [rid |-> 1, page |-> "NextSong", userId |-> "U1", firstName |-> "F1",
     lastName |-> "N1", gender |-> "F", level |-> "free", song |-> "Test",
     artist |-> "Artist1", length |-> 200, ts |-> 90061000],
    [rid |-> 2, page |-> "NextSong", userId |-> "U1", firstName |-> "F1",
     lastName |-> "N1", gender |-> "F", level |-> "paid", song |-> "Test",
     artist |-> "Artist1", length |-> 201, ts |-> 90061500],
    [rid |-> 3, page |-> "Home", userId |-> "U2", firstName |-> "F2",
     lastName |-> "N2", gender |-> "M", level |-> "free", song |-> "null",
     artist |-> "null", length |-> 0, ts |-> 1000],
    [rid |-> 4, page |-> "NextSong", userId |-> "U3", firstName |-> "F3",
     lastName |-> "N3", gender |-> "M", level |-> "free", song |-> "Other",
     artist |-> "Artist2", length |-> 200, ts |-> 90061000] }

SongInputs == {s \in SUBSET SongRecords : Cardinality(s) <= MaxSongs}
LogInputs == {s \in SUBSET LogRecords : Cardinality(s) <= MaxEvents}

Tables == <<"songs", "artists", "users", "time", "songplays">>
TableNames == {Tables[i] : i \in 1..Len(Tables)}

\* ------------------------------------------------------ table operations
\* df['a', 'b', ...]: keep the named columns of every row
Project(tbl, cols) == {[c \in cols \cup {"rid"} |-> r[c]] : r \in tbl}

\* dropDuplicates that keeps every row
DropDuplicatesKeepAll(tbl, key) == {tbl}

\* dropDuplicates([key]): every result the engine may produce, one arbitrary
\* row kept for each key value
DropDuplicates(tbl, key) ==
  {s \in SUBSET tbl :
     /\ \A r \in tbl : \E q \in s : q[key] = r[key]
     /\ \A q1, q2 \in s : q1[key] = q2[key] => q1 = q2}

\* a filter that lets every page through
FilterAnyPage(tbl) == tbl

\* df.filter(df['page'] == 'NextSong')
FilterNextSong(tbl) == {r \in tbl : r.page = "NextSong"}

\* the JSON reader infers the columns from the records: no record, no column
HasColumns(tbl) == tbl # {}

\* append mode: the old rows stay next to the new ones
WriteAppend(old, new) == old \cup new

\* write.parquet(path, 'overwrite'): the location holds the new rows only
Overwrite(old, new) == new

\* what a failed overwrite may leave at the location: the old rows (failure
\* before the delete) or any part of the new rows (failure after it)
FailedWrite(old, new) == {old} \cup SUBSET new

\* ------------------------------------------------------------- calendar
\* proleptic Gregorian date of the day `z` days after 1970-01-01
CivilFromDays(z) ==
  LET zz == z + 719468
      era == zz \div 146097
      doe == zz - era * 146097
      yoe == (doe - doe \div 1460 + doe \div 36524 - doe \div 146096) \div 365
      doy == doe - (365 * yoe + yoe \div 4 - yoe \div 100)
      mp == (5 * doy + 2) \div 153
      d == doy - (153 * mp + 2) \div 5 + 1
      m == IF mp < 10 THEN mp + 3 ELSE mp - 9
      y == yoe + era * 400 + (IF m <= 2 THEN 1 ELSE 0)
  IN [year |-> y, month |-> m, day |-> d]

\* number of days from 1970-01-01 to the date y-m-d
DaysFromCivil(y, m, d) ==
  LET yy == IF m <= 2 THEN y - 1 ELSE y
      era == yy \div 400
      yoe == yy - era * 400
      doy == (153 * (IF m > 2 THEN m - 3 ELSE m + 9) + 2) \div 5 + d - 1
      doe == yoe * 365 + yoe \div 4 - yoe \div 100 + doy
  IN era * 146097 + doe - 719468

\* udf(lambda x: str(int(int(x)/1000))): whole epoch seconds
get_timestamp(x) == x \div 1000

\* a conversion that divides with integer division and loses the milliseconds
get_datetime_floor(x) ==
  LET secs == x \div 1000
      date == CivilFromDays(secs \div 86400)
      rem == secs % 86400
  IN [year |-> date.year, month |-> date.month, day |-> date.day,
      hour |-> rem \div 3600, minute |-> (rem % 3600) \div 60,
      second |-> rem % 60, microsecond |-> 0]

\* udf(lambda x: str(datetime.fromtimestamp(int(x) / 1000.0))): the calendar
\* instant of x milliseconds; the division is a float division, so the
\* milliseconds survive as the microsecond field of the datetime
get_datetime(x) ==
  LET secs == x \div 1000
      date == CivilFromDays(secs \div 86400)
      rem == secs % 86400
  IN [year |-> date.year, month |-> date.month, day |-> date.day,
      hour |-> rem \div 3600, minute |-> (rem % 3600) \div 60,
      second |-> rem % 60, microsecond |-> (x % 1000) * 1000]

\* the engine's calendar functions over the datetime column
hour(dt) == dt.hour
dayofmonth(dt) == dt.day
month(dt) == dt.month
year(dt) == dt.year

\* ISO-8601 week of the year
weekofyear(dt) ==
  LET days == DaysFromCivil(dt.year, dt.month, dt.day)
      wd == ((days + 3) % 7) + 1
      doy == days - DaysFromCivil(dt.year, 1, 1) + 1
      w == (doy - wd + 10) \div 7
      Jan1(y) == ((DaysFromCivil(y, 1, 1) + 3) % 7) + 1
      Leap(y) == (y % 4 = 0 /\ y % 100 # 0) \/ y % 400 = 0
      Weeks(y) == IF Jan1(y) = 4 \/ (Leap(y) /\ Jan1(y) = 3) THEN 53 ELSE 52
  IN IF w < 1 THEN Weeks(dt.year - 1)
     ELSE IF w > Weeks(dt.year) THEN 1 ELSE w

\* df.withColumn('timestamp', ...).withColumn('datetime', ...)
WithTimeColumns(tbl) ==
  {[c \in DOMAIN r \cup {"timestamp", "datetime"} |->
      IF c = "timestamp" THEN get_timestamp(r.ts)
      ELSE IF c = "datetime" THEN get_datetime(r.ts) ELSE r[c]] : r \in tbl}

\* df.select(col('datetime').alias('start_time'), hour('datetime'), ...)
SelectTime(tbl) ==
  {[rid |-> r.rid, start_time |-> r.datetime, hour |-> hour(r.datetime),
    day |-> dayofmonth(r.datetime), week |-> weekofyear(r.datetime),
    month |-> month(r.datetime), year |-> year(r.datetime)] : r \in tbl}

\* ------------------------------------------------- the join condition
\* The operands are Column objects.  `&` binds tighter than `==`, so the
\* condition is the chained comparison
\*   title == (song & artist_name) == (artist & duration) == length
\* whose first link is a Column that Python converts to bool for the `and`.
Col(name) == [kind |-> "Column", expr |-> <<name>>]
ColAnd(a, b) == [kind |-> "Column", expr |-> <<"&">> \o a.expr \o b.expr]
ColEq(a, b) == [kind |-> "Column", expr |-> <<"==">> \o a.expr \o b.expr]

\* Column.__bool__ raises ValueError
ColBool(c) == IF c.kind = "Column" THEN "ValueError" ELSE "True"

JoinCondition ==
  LET a == Col("title")
      b == ColAnd(Col("song"), Col("artist_name"))
      c == ColAnd(Col("artist"), Col("duration"))
      d == Col("length")
      l1 == ColBool(ColEq(a, b))
      l2 == ColBool(ColEq(b, c))
  IN IF l1 = "ValueError" THEN [raised |-> TRUE, cond |-> ColEq(a, b)]
     ELSE IF l2 = "ValueError" THEN [raised |-> TRUE, cond |-> ColEq(b, c)]
     ELSE [raised |-> FALSE, cond |-> ColEq(c, d)]

\* ------------------------------------------------------------ control
Stages == <<"read_song", "songs", "artists", "read_log", "users", "time",
            "read_song2", "join", "songplays">>

StageIndex(s) == CHOOSE i \in 1..Len(Stages) : Stages[i] = s

\* a driver that swallows the exception and goes on with the next stage
NextPcSwallow(stage, ok) == Stages[StageIndex(stage) + 1]

\* an exception propagates out of main(): nothing catches it
NextPc(stage, ok) ==
  IF ok THEN Stages[StageIndex(stage) + 1] ELSE "aborted"

NoError == [type |-> "none", stage |-> "none"]

Init ==
  /\ catalog \in SongInputs
  /\ log \in LogInputs
  /\ df = {}
  /\ song_df = {}
  /\ disk = [t \in TableNames |-> {}]
  /\ before = disk
  /\ pc = "read_song"
  /\ error = NoError
  /\ written = <<>>
  /\ announced = <<>>
  /\ run = 1

\* a stage that raises
Raise(stage, type) ==
  /\ pc' = NextPc(stage, FALSE)
  /\ error' = [type |-> type, stage |-> stage]

\* table.write.parquet(path, 'overwrite') followed by the completion message
WriteTable(stage, t, tbl) ==
  \/ /\ disk' = [disk EXCEPT ![t] = Overwrite(@, tbl)]
     /\ written' = Append(written, t)
     /\ announced' = Append(announced, t)
     /\ pc' = NextPc(stage, TRUE)
     /\ UNCHANGED error
  \/ /\ \E left \in FailedWrite(disk[t], tbl) :
            disk' = [disk EXCEPT ![t] = left]
     /\ Raise(stage, "WriteError")
     /\ UNCHANGED <<written, announced>>

\* df = spark.read.json(song_data)
ReadSongData ==
  /\ pc = "read_song"
  /\ \/ /\ df' = catalog
        /\ pc' = NextPc("read_song", TRUE)
        /\ UNCHANGED error
     \/ /\ Raise("read_song", "IngestionError")
        /\ UNCHANGED df
  /\ UNCHANGED <<catalog, log, song_df, disk, before, written, announced, run>>

SongColumns == {"song_id", "title", "artist_id", "year", "duration"}

\* songs_table = df[...].dropDuplicates(['song_id']); write; print
WriteSongs ==
  /\ pc = "songs"
  /\ IF HasColumns(df)
     THEN \E tbl \in DropDuplicates(Project(df, SongColumns), "song_id") :
            WriteTable("songs", "songs", tbl)
     ELSE /\ Raise("songs", "SchemaError")
          /\ UNCHANGED <<disk, written, announced>>
  /\ UNCHANGED <<catalog, log, df, song_df, before, run>>

ArtistColumns == {"artist_id", "artist_name", "artist_location",
                  "artist_latitude", "artist_longitude"}

\* artists_table = df[...].dropDuplicates(['artist_id']); write; print
WriteArtists ==
  /\ pc = "artists"
  /\ \E tbl \in DropDuplicates(Project(df, ArtistColumns), "artist_id") :
        WriteTable("artists", "artists", tbl)
  /\ UNCHANGED <<catalog, log, df, song_df, before, run>>

\* df = spark.read.json(log_data); df = df.filter(df['page'] == 'NextSong')
ReadLogData ==
  /\ pc = "read_log"
  /\ \/ /\ HasColumns(log)
        /\ df' = FilterNextSong(log)
        /\ pc' = NextPc("read_log", TRUE)
        /\ UNCHANGED error
     \/ /\ ~HasColumns(log)
        /\ Raise("read_log", "SchemaError")
        /\ UNCHANGED df
     \/ /\ Raise("read_log", "IngestionError")
        /\ UNCHANGED df
  /\ UNCHANGED <<catalog, log, song_df, disk, before, written, announced, run>>

UserColumns == {"userId", "firstName", "lastName", "gender", "level"}

\* users_table = df[...].dropDuplicates(['userId']); write; print
WriteUsers ==
  /\ pc = "users"
  /\ \E tbl \in DropDuplicates(Project(df, UserColumns), "userId") :
        WriteTable("users", "users", tbl)
  /\ UNCHANGED <<catalog, log, df, song_df, before, run>>

\* the timestamp and datetime columns, time_table = df.select(...)
\* .dropDuplicates(['start_time']); write; print
WriteTime ==
  /\ pc = "time"
  /\ df' = WithTimeColumns(df)
  /\ \E tbl \in DropDuplicates(SelectTime(df'), "start_time") :
        WriteTable("time", "time", tbl)
  /\ UNCHANGED <<catalog, log, song_df, before, run>>

\* song_df = spark.read.json(...).dropDuplicates(['song_id'])
ReadSongData2 ==
  /\ pc = "read_song2"
  /\ \/ /\ \E tbl \in DropDuplicates(catalog, "song_id") : song_df' = tbl
        /\ pc' = NextPc("read_song2", TRUE)
        /\ UNCHANGED error
     \/ /\ Raise("read_song2", "IngestionError")
        /\ UNCHANGED song_df
  /\ UNCHANGED <<catalog, log, df, disk, before, written, announced, run>>

\* songplays_table = df.join(song_df, <condition>, 'inner'): building the
\* condition raises before the join is requested
JoinSongplays ==
  /\ pc = "join"
  /\ JoinCondition.raised
  /\ Raise("join", "ValueError")
  /\ UNCHANGED <<catalog, log, df, song_df, disk, before, written, announced, run>>

\* the script is started again on the same destination after a run that got
\* through its four writes; one of the two input datasets may have changed in
\* between; `before` keeps what the run finds at the destination
Rerun ==
  /\ pc = "aborted"
  /\ error.stage = "join"
  /\ run < MaxRuns
  /\ \/ catalog' \in SongInputs /\ log' = log
     \/ catalog' = catalog /\ log' \in LogInputs
  /\ df' = {}
  /\ song_df' = {}
  /\ pc' = "read_song"
  /\ error' = NoError
  /\ written' = <<>>
  /\ announced' = <<>>
  /\ run' = run + 1
  /\ before' = disk
  /\ UNCHANGED disk

Next ==
  \/ ReadSongData
  \/ WriteSongs
  \/ WriteArtists
  \/ ReadLogData
  \/ WriteUsers
  \/ WriteTime
  \/ ReadSongData2
  \/ JoinSongplays
  \/ Rerun

Spec == Init /\ [][Next]_vars

\* =============================================================== claims
IsWritten(t) == \E i \in DOMAIN written : written[i] = t
IsAnnounced(t) == \E i \in DOMAIN announced : announced[i] = t
Dimensions == {"songs", "artists", "users", "time"}
NextSongEvents == {e \in log : e.page = "NextSong"}

\* the failures of the error taxonomy: ingestion, schema and write errors
EnvErrors == {"IngestionError", "SchemaError", "WriteError"}

\* the run is over and met none of the three failures
EndedWithoutEnvError == pc = "aborted" /\ error.type \notin EnvErrors

\* milliseconds since the epoch of a calendar instant
EpochMillis(dt) ==
  (DaysFromCivil(dt.year, dt.month, dt.day) * 86400 + dt.hour * 3600
     + dt.minute * 60 + dt.second) * 1000 + dt.microsecond \div 1000

\* the rows a table may hold when it is built from the current input alone
Derivable(t) ==
  CASE t = "songs" -> Project(catalog, SongColumns)
    [] t = "artists" -> Project(catalog, ArtistColumns)
    [] t = "users" -> Project({e \in log : e.page = "NextSong"}, UserColumns)
    [] t = "time" -> SelectTime(WithTimeColumns(NextSongEvents))
    [] OTHER -> {}

KeyOf(t) ==
  CASE t = "songs" -> "song_id"
    [] t = "artists" -> "artist_id"
    [] t = "users" -> "userId"
    [] t = "time" -> "start_time"

UniqueOn(tbl, key) == \A r1, r2 \in tbl : r1[key] = r2[key] => r1 = r2

\* the location of t holds a table that the current input alone gives
HoldsTableOfInput(t) ==
  LET rows == Derivable(t)
  IN /\ disk[t] \subseteq rows
     /\ UniqueOn(disk[t], KeyOf(t))
     /\ \A r \in rows : \E q \in disk[t] : q[KeyOf(t)] = r[KeyOf(t)]

\* ---- C1
\* C1: once process_log_data is over without an ingestion, schema or write
\* error, a songplay row exists for an (event, catalog record) pair exactly
\* when the event is a NextSong event whose song, artist and length equal the
\* record's title, artist_name and duration.
Matches(e, c) ==
  /\ e.page = "NextSong"
  /\ e.song = c.title
  /\ e.artist = c.artist_name
  /\ e.length = c.duration

Emitted(e, c) == \E r \in disk.songplays : r.rid = <<e.rid, c.rid>>

C1_SongplayIffMatch ==
  EndedWithoutEnvError =>
    \A e \in log : \A c \in song_df : Emitted(e, c) <=> Matches(e, c)

\* ---- C3
\* C3: each dimension table written by the run has no two rows with the same
\* key, has at most as many rows as its source table, and every key in it is
\* the key of a row of its source table.
SourceRows(t) == IF t \in {"songs", "artists"} THEN catalog ELSE log

SourceKeys(t) ==
  CASE t = "songs" -> {c.song_id : c \in catalog}
    [] t = "artists" -> {c.artist_id : c \in catalog}
    [] t = "users" -> {e.userId : e \in log}
    [] t = "time" -> {get_datetime(e.ts) : e \in log}

C3_DimensionKeys ==
  \A t \in Dimensions :
    IsWritten(t) =>
      /\ UniqueOn(disk[t], KeyOf(t))
      /\ Cardinality(disk[t]) <= Cardinality(SourceRows(t))
      /\ \A r \in disk[t] : r[KeyOf(t)] \in SourceKeys(t)

\* all four dimension tables are written; two NextSong events of one user with
\* different levels gave one users row, two catalog records with one song_id
\* gave one songs row
C3_Witness ==
  /\ \A t \in Dimensions : IsWritten(t)
  /\ \E e1, e2 \in NextSongEvents :
        /\ e1.userId = e2.userId
        /\ e1.level # e2.level
        /\ Cardinality({r \in disk.users : r.userId = e1.userId}) = 1
  /\ \E c1, c2 \in catalog :
        /\ c1 # c2
        /\ c1.song_id = c2.song_id
        /\ Cardinality({r \in disk.songs : r.song_id = c1.song_id}) = 1

\* ---- C4
\* C4: every row of users, time and songplays comes from an event whose page
\* is NextSong; a user or a timestamp that occurs only in other events has no
\* row in users or time.
C4_OnlyNextSong ==
  /\ IsWritten("users") =>
       /\ \A r \in disk.users :
            \E e \in log : e.page = "NextSong" /\ e.rid = r.rid
                           /\ e.userId = r.userId
       /\ \A e \in log :
            (\A n \in NextSongEvents : n.userId # e.userId) =>
               \A r \in disk.users : r.userId # e.userId
  /\ IsWritten("time") =>
       /\ \A r \in disk.time :
            \E e \in log : e.page = "NextSong" /\ e.rid = r.rid
                           /\ EpochMillis(r.start_time) = e.ts
       /\ \A e \in log :
            (\A n \in NextSongEvents : n.ts # e.ts) =>
               \A r \in disk.time : EpochMillis(r.start_time) # e.ts
  /\ \A r \in disk.songplays :
       \E e \in log : e.page = "NextSong" /\ e.rid = r.rid[1]

\* users and time are written from a log that holds a NextSong event and an
\* event of another page whose user and timestamp no NextSong event has
C4_Witness ==
  /\ IsWritten("users")
  /\ IsWritten("time")
  /\ disk.users # {}
  /\ disk.time # {}
  /\ \E e \in log :
        /\ e.page # "NextSong"
        /\ \A n \in NextSongEvents : n.userId # e.userId /\ n.ts # e.ts

\* ---- C5
\* C5 as stated: the start_time of every NextSong event is the instant of its
\* whole epoch seconds, floor(ts / 1000), without a sub-second part, so the
\* events of one second share one row of the time table.
C5_StartTimeWholeSeconds ==
  IsWritten("time") =>
    /\ \A e \in NextSongEvents :
         \E r \in disk.time :
            /\ r.start_time.microsecond = 0
            /\ EpochMillis(r.start_time) = (e.ts \div 1000) * 1000
    /\ \A e1, e2 \in NextSongEvents :
         e1.ts \div 1000 = e2.ts \div 1000 =>
            Cardinality({r \in disk.time :
               EpochMillis(r.start_time) \div 1000 = e1.ts \div 1000}) = 1

\* C5 as amended: the start_time of every NextSong event is the instant of
\* its ts with the milliseconds kept; converting it back gives ts, so its
\* whole seconds are floor(ts / 1000); the time table has one row for each
\* distinct ts, and its calendar columns are those of start_time.
C5_StartTimeKeepsMillis ==
  IsWritten("time") =>
    /\ \A e \in NextSongEvents :
         \E r \in disk.time :
            /\ EpochMillis(r.start_time) = e.ts
            /\ EpochMillis(r.start_time) \div 1000 = e.ts \div 1000
    /\ \A r \in disk.time :
         /\ \E e \in NextSongEvents : EpochMillis(r.start_time) = e.ts
         /\ r.hour \in 0..23 /\ r.hour = r.start_time.hour
         /\ r.month \in 1..12 /\ r.month = r.start_time.month
         /\ r.day \in 1..31 /\ r.year = r.start_time.year
    /\ Cardinality(disk.time) = Cardinality({e.ts : e \in NextSongEvents})

\* the time table is written from two NextSong events of the same second with
\* different milliseconds, and holds a row for each of them
C5_Witness ==
  /\ IsWritten("time")
  /\ \E e1, e2 \in NextSongEvents :
        /\ e1.ts # e2.ts
        /\ e1.ts \div 1000 = e2.ts \div 1000
        /\ Cardinality({r \in disk.time :
              EpochMillis(r.start_time) \div 1000 = e1.ts \div 1000}) = 2

\* ---- C7
\* C7: a location written by the current run holds exactly a table built from
\* the current input, whatever an earlier run left there: no row that only
\* the earlier run produced stays readable.
C7_OverwriteNoMerge ==
  /\ \A t \in Dimensions :
       IsWritten(t) =>
         /\ HoldsTableOfInput(t)
         /\ \A r \in before[t] \ Derivable(t) : r \notin disk[t]
  /\ \A r \in before.songplays : r \notin disk.songplays

\* a second run is over, it wrote the four tables, and rows that the first run
\* left at the users and songs locations are gone
C7_Witness ==
  /\ run = 2
  /\ pc = "aborted"
  /\ \A t \in Dimensions : IsWritten(t)
  /\ \E r \in before.users : r \notin disk.users
  /\ \E r \in before.songs : r \notin disk.songs
  /\ disk.users # {}

\* ---- C8
\* C8: once a stage has failed the run is over; the table whose write was due
\* at the failing stage and the tables after it are neither written nor
\* announced in this run, and the tables of the earlier stages are on disk as
\* they were written.
FirstUnwritten(stage) ==
  CASE stage \in {"read_song", "songs"} -> 1
    [] stage = "artists" -> 2
    [] stage \in {"read_log", "users"} -> 3
    [] stage = "time" -> 4
    [] OTHER -> 5

C8_FailureAborts ==
  error.type # "none" =>
    /\ pc = "aborted"
    /\ \A i \in 1..Len(Tables) :
         IF i >= FirstUnwritten(error.stage)
         THEN ~IsWritten(Tables[i]) /\ ~IsAnnounced(Tables[i])
         ELSE IsWritten(Tables[i]) /\ HoldsTableOfInput(Tables[i])

\* the write of the time table failed after songs, artists and users were
\* written
C8_Witness ==
  /\ pc = "aborted"
  /\ error = [type |-> "WriteError", stage |-> "time"]
  /\ written = <<"songs", "artists", "users">>
  /\ disk.songs # {}
  /\ disk.users # {}

\* ---- C9
\* C9: a run that is over and met no ingestion, schema or write error has
\* written each of the five destinations exactly once, songplays last.
C9_FiveWritesSongplaysLast ==
  EndedWithoutEnvError => written = Tables
====
